---- MODULE Spec2Model ----
(***************************************************************************)
(* Model of gen_data.py: a linear script that builds NUM_TRANSACTIONS      *)
(* synthetic transaction records in memory, turns them into a DataFrame,   *)
(* writes transactions_.csv and transactions_.json, and prints a           *)
(* completion message.                                                     *)
(*                                                                         *)
(* Text is a sequence of one-character strings.  A Python value is a       *)
(* tagged record [t, v]: t = "int" (v a natural), t = "float" (v the       *)
(* value in thousandths) or t = "str" (v a text).                          *)
(***************************************************************************)
EXTENDS Integers, Sequences, FiniteSets, TLC

(* ------------------------------ bounds --------------------------------- *)

\* Largest value of NUM_TRANSACTIONS explored.
MaxN == 2

\* The random values consumed by one record are indexed by r in 0..MaxRand.
MaxRand == 16

\* random.random() is sampled at the fractions 0/UniformSteps .. UniformSteps/UniformSteps.
UniformSteps == 16

(* ------------------------- program constants --------------------------- *)

NUM_AGENTS == 25
NUM_CLIENTS == 100

\* k=8 in random.choices(...)
CodeLen == 8

(* ------------------------------- values -------------------------------- *)

PyInt(n) == [t |-> "int", v |-> n]
PyFloat(m) == [t |-> "float", v |-> m]
PyStr(s) == [t |-> "str", v |-> s]

(* -------------------------- number <-> text ---------------------------- *)

Digits == <<"0", "1", "2", "3", "4", "5", "6", "7", "8", "9">>

RECURSIVE Pow10(_)
Pow10(n) == IF n = 0 THEN 1 ELSE 10 * Pow10(n - 1)

\* str(int): decimal digits, no leading zeros.
RECURSIVE IntToText(_)
IntToText(n) ==
    IF n < 10 THEN <<Digits[n + 1]>>
    ELSE Append(IntToText(n \div 10), Digits[(n % 10) + 1])

DigitValue(c) == (CHOOSE d \in 1..10 : Digits[d] = c) - 1

\* int(text)
RECURSIVE TextToInt(_)
TextToInt(s) ==
    IF Len(s) = 0 THEN 0
    ELSE 10 * TextToInt(SubSeq(s, 1, Len(s) - 1)) + DigitValue(s[Len(s)])

RECURSIVE StripTrailingZeros(_)
StripTrailingZeros(s) ==
    IF Len(s) > 1 /\ s[Len(s)] = "0"
    THEN StripTrailingZeros(SubSeq(s, 1, Len(s) - 1))
    ELSE s

\* Variant of FloatRepr that writes an integral float without ".0".
FloatReprDropPointZero(m) ==
    LET frac == m % 1000
    IN  IF frac = 0 THEN IntToText(m \div 1000)
        ELSE IntToText(m \div 1000) \o <<".">> \o
             StripTrailingZeros(<<Digits[(frac \div 100) + 1],
                                  Digits[((frac \div 10) % 10) + 1],
                                  Digits[(frac % 10) + 1]>>)

\* float.__repr__ of a value given in thousandths: shortest text that reads
\* back as the same value, always with a decimal point (10.0, 10.5, 10.25).
FloatRepr(m) ==
    LET frac == m % 1000
    IN  IntToText(m \div 1000) \o <<".">> \o
        StripTrailingZeros(<<Digits[(frac \div 100) + 1],
                             Digits[((frac \div 10) % 10) + 1],
                             Digits[(frac % 10) + 1]>>)

HasPoint(s) == \E p \in 1..Len(s) : s[p] = "."

PointPos(s) == CHOOSE p \in 1..Len(s) : s[p] = "."

\* float(text) for a text with a decimal point, in thousandths.
ParseFloat(s) ==
    LET p == PointPos(s)
        fr == SubSeq(s, p + 1, Len(s))
    IN  TextToInt(SubSeq(s, 1, p - 1)) * 1000
          + (IF Len(fr) > 3 THEN TextToInt(SubSeq(fr, 1, 3))
             ELSE TextToInt(fr) * Pow10(3 - Len(fr)))

\* Number of digits after the decimal point in the written form of a float.
DecimalDigits(m) == Len(FloatRepr(m)) - PointPos(FloatRepr(m))

(* ---------------------------- random source ---------------------------- *)

\* The j-th raw output of the random stream consumed by a record whose
\* entropy is r.
rand(r, j) == r * (j + 1) + j

\* random.randint(a, b): an integer in [a, b], both ends included.
randint(a, b, raw) == a + (raw % (b - a + 1))

\* random.choice(seq)
choice(seq, raw) == seq[(raw % Len(seq)) + 1]

\* random.uniform(a, b) = a + (b - a) * random(), in thousandths.  The
\* end point b can be returned because of floating-point rounding.
uniform(a, b, raw) ==
    a * 1000 + (((b - a) * 1000 * (raw % (UniformSteps + 1))) \div UniformSteps)

\* round(x, ndigits) for x in thousandths and ndigits in 0..3: to the
\* nearest multiple of 10^-ndigits, ties to even.
round(x, ndigits) ==
    LET unit == Pow10(3 - ndigits)
        q == x \div unit
        rem == x % unit
    IN  IF 2 * rem > unit \/ (2 * rem = unit /\ q % 2 = 1)
        THEN (q + 1) * unit
        ELSE q * unit

\* string.ascii_uppercase + string.digits
Alphabet ==
    <<"A", "B", "C", "D", "E", "F", "G", "H", "I", "J", "K", "L", "M",
      "N", "O", "P", "Q", "R", "S", "T", "U", "V", "W", "X", "Y", "Z",
      "0", "1", "2", "3", "4", "5", "6", "7", "8", "9">>

\* random.choices(population, k=k): k independent draws with replacement.
choices(population, k, r) == [j \in 1..k |-> choice(population, rand(r, j))]

(* ------------------------------- faker --------------------------------- *)

SampleNames ==
    << <<"A", "n", "n", " ", "L", "e", "e">>,
       <<"D", "r", ".", " ", "B", "o", " ", "O", "k", "o", "n">>,
       <<"J", "o", " ", "D", "u", "n", "n", " ", "J", "r", ".">> >>

SampleCountries ==
    << <<"P", "e", "r", "u">>,
       <<"C", "h", "a", "d">>,
       <<"K", "o", "r", "e", "a">> >>

SampleDateTimes ==
    << <<"2", "0", "2", "3", "-", "0", "1", "-", "0", "5", "T",
         "1", "0", ":", "2", "0", ":", "3", "0">>,
       <<"2", "0", "2", "5", "-", "1", "1", "-", "3", "0", "T",
         "2", "3", ":", "5", "9", ":", "5", "9">> >>

SampleImageUrls ==
    << <<"h", "t", "t", "p", "s", ":", "/", "/", "p", "i", "c", "s", "u", "m",
         ".", "p", "h", "o", "t", "o", "s", "/", "6", "4", "/", "4", "8">>,
       <<"h", "t", "t", "p", "s", ":", "/", "/", "d", "u", "m", "m", "y",
         "i", "m", "a", "g", "e", ".", "c", "o", "m", "/", "6", "4", "x",
         "4", "8">> >>

\* faker.name()
faker_name(raw) == choice(SampleNames, raw)

\* faker.country()
faker_country(raw) == choice(SampleCountries, raw)

\* faker.image_url()
faker_image_url(raw) == choice(SampleImageUrls, raw)

\* random_datetime(start, end).isoformat()
random_datetime(raw) == choice(SampleDateTimes, raw)

(* ------------------------- record generation --------------------------- *)

\* The keys of a record, in the order of the dict literal.
FieldNames ==
    <<"TransactionID", "TransactionCode", "ClientID", "ClientFullName",
      "AgentID", "AgentFullName", "TransactionDate", "Amount", "Currency",
      "OriginalCountry", "DestinationCountry", "Fee", "TransactionStatus",
      "StatusDate", "Category", "Icon", "IsFraudulent">>

Currencies == <<"USD", "EUR", "GBP", "INR", "AUD", "CAD">>
Statuses == <<"Completed", "Pending", "Failed", "Cancelled">>
Categories == <<"Send", "Receive", "Other">>

\* The text of an enumeration literal.
LiteralText(name) ==
    CASE name = "USD" -> <<"U", "S", "D">>
      [] name = "EUR" -> <<"E", "U", "R">>
      [] name = "GBP" -> <<"G", "B", "P">>
      [] name = "INR" -> <<"I", "N", "R">>
      [] name = "AUD" -> <<"A", "U", "D">>
      [] name = "CAD" -> <<"C", "A", "D">>
      [] name = "usd" -> <<"u", "s", "d">>
      [] name = "Completed" -> <<"C", "o", "m", "p", "l", "e", "t", "e", "d">>
      [] name = "Pending" -> <<"P", "e", "n", "d", "i", "n", "g">>
      [] name = "Failed" -> <<"F", "a", "i", "l", "e", "d">>
      [] name = "Cancelled" -> <<"C", "a", "n", "c", "e", "l", "l", "e", "d">>
      [] name = "Send" -> <<"S", "e", "n", "d">>
      [] name = "Receive" -> <<"R", "e", "c", "e", "i", "v", "e">>
      [] name = "Other" -> <<"O", "t", "h", "e", "r">>

\* Variant of generate_transaction_code drawing one character fewer.
generate_transaction_code_k7(r) ==
    <<"T", "X", "N", "-">> \o choices(Alphabet, CodeLen - 1, r)

\* generate_transaction_code(): "TXN-" followed by 8 characters drawn from
\* the upper-case letters and the digits.
generate_transaction_code(r) ==
    <<"T", "X", "N", "-">> \o choices(Alphabet, CodeLen, r)

\* Variant of TransactionIDField numbering from 0.
TransactionIDFieldFromZero(i) == i

\* "TransactionID": i + 1
TransactionIDField(i) == i + 1

\* Variant of AmountField without the rounding.
AmountFieldUnrounded(r) == uniform(10, 10000, rand(r, 11))

\* "Amount": round(random.uniform(10, 10000), 2)
AmountField(r) == round(uniform(10, 10000, rand(r, 11)), 2)

\* "Fee": round(random.uniform(1, 50), 2)
FeeField(r) == round(uniform(1, 50, rand(r, 13)), 2)

\* Variant of CurrencyField with a misspelt last literal.
CurrencyFieldLower(r) ==
    choice(<<"USD", "EUR", "GBP", "INR", "AUD", "usd">>, rand(r, 12))

\* "Currency": random.choice([...])
CurrencyField(r) == choice(Currencies, rand(r, 12))

StatusField(r) == choice(Statuses, rand(r, 14))

CategoryField(r) == choice(Categories, rand(r, 15))

\* One element of the list comprehension: the record for loop index i,
\* built from the random values indexed by r.
TransactionRecord(i, r) ==
    [TransactionID      |-> PyInt(TransactionIDField(i)),
     TransactionCode    |-> PyStr(generate_transaction_code(r)),
     ClientID           |-> PyInt(randint(1, NUM_CLIENTS, rand(r, 9))),
     ClientFullName     |-> PyStr(faker_name(r)),
     AgentID            |-> PyInt(randint(1, NUM_AGENTS, rand(r, 10))),
     AgentFullName      |-> PyStr(faker_name(r + 1)),
     TransactionDate    |-> PyStr(random_datetime(r)),
     Amount             |-> PyFloat(AmountField(r)),
     Currency           |-> PyStr(LiteralText(CurrencyField(r))),
     OriginalCountry    |-> PyStr(faker_country(r)),
     DestinationCountry |-> PyStr(faker_country(r + 1)),
     Fee                |-> PyFloat(FeeField(r)),
     TransactionStatus  |-> PyStr(LiteralText(StatusField(r))),
     StatusDate         |-> PyStr(random_datetime(r + 1)),
     Category           |-> PyStr(LiteralText(CategoryField(r))),
     Icon               |-> PyStr(faker_image_url(r)),
     IsFraudulent       |-> PyInt(choice(<<0, 1>>, rand(r, 16)))]


(* --------------------------- serialization ----------------------------- *)

\* pd.DataFrame(list of dicts): the columns are the keys of the records in
\* order (none when the list is empty), one row of values per record.
DataFrame(data) ==
    [columns |-> IF Len(data) = 0 THEN <<>> ELSE FieldNames,
     rows    |-> [k \in 1..Len(data) |->
                    [j \in 1..Len(FieldNames) |-> data[k][FieldNames[j]]]]]

NeedsQuote(s) == \E p \in 1..Len(s) : s[p] \in {",", "\"", "\n"}

\* One CSV cell: str() of a number, the text of a string, quoted only when
\* it holds a delimiter (csv.QUOTE_MINIMAL).
CsvCell(val) ==
    CASE val.t = "int" -> IntToText(val.v)
      [] val.t = "float" -> FloatRepr(val.v)
      [] val.t = "str" ->
            IF NeedsQuote(val.v) THEN <<"\"">> \o val.v \o <<"\"">> ELSE val.v

\* Variant of to_csv that writes no header line.
to_csv_no_header(df) ==
    [k \in 1..Len(df.rows) |->
        [j \in 1..Len(df.rows[k]) |-> CsvCell(df.rows[k][j])]]

\* DataFrame.to_csv(path, index=False): the header line, then one line per
\* row.  The header is a sequence of column names, a data line a sequence
\* of cell texts.
to_csv(df) ==
    <<df.columns>> \o
    [k \in 1..Len(df.rows) |->
        [j \in 1..Len(df.rows[k]) |-> CsvCell(df.rows[k][j])]]

\* Variant of JsonToken that writes an integral float as an integer.
JsonTokenIntegralFloat(val) ==
    CASE val.t = "int" -> [kind |-> "number", text |-> IntToText(val.v)]
      [] val.t = "float" ->
            [kind |-> "number", text |-> FloatReprDropPointZero(val.v)]
      [] val.t = "str" -> [kind |-> "string", text |-> val.v]

\* json encoding of one value: an int as its digits, a float as
\* float.__repr__, a str between double quotes (the sampled strings hold no
\* character that json escapes).
JsonToken(val) ==
    CASE val.t = "int" -> [kind |-> "number", text |-> IntToText(val.v)]
      [] val.t = "float" -> [kind |-> "number", text |-> FloatRepr(val.v)]
      [] val.t = "str" -> [kind |-> "string", text |-> val.v]

\* json.dump(data, f, indent=4): an array with one object per record, each
\* object its key/value members in key order.
json_dump(data) ==
    [k \in 1..Len(data) |->
        [j \in 1..Len(FieldNames) |->
            [key |-> FieldNames[j], tok |-> JsonToken(data[k][FieldNames[j]])]]]

\* json decoding of one token: a quoted text is a str, a number with a
\* decimal point a float, any other number an int.
JsonValue(tok) ==
    IF tok.kind = "string" THEN PyStr(tok.text)
    ELSE IF HasPoint(tok.text) THEN PyFloat(ParseFloat(tok.text))
    ELSE PyInt(TextToInt(tok.text))

\* json.load of a written array: per object the keys in order and the
\* decoded values.
json_load(objs) ==
    [k \in 1..Len(objs) |->
        [keys |-> [j \in 1..Len(objs[k]) |-> objs[k][j].key],
         vals |-> [j \in 1..Len(objs[k]) |-> JsonValue(objs[k][j].tok)]]]

(* ------------------------------- state --------------------------------- *)

VARIABLES
    pc,                 \* the statement the script is at
    NUM_TRANSACTIONS,   \* the record count N
    i,                  \* loop index of the list comprehension
    transactions_data,  \* the records built so far
    transactions_df,    \* the DataFrame
    csvFile,            \* transactions_.csv on disk
    jsonFile,           \* transactions_.json on disk
    stdout,             \* lines printed
    raised,             \* the call whose exception ended the run, or "none"
    exitStatus,         \* "running", "0" or "1"
    attempts            \* how often each write has been started

vars == <<pc, NUM_TRANSACTIONS, i, transactions_data, transactions_df,
          csvFile, jsonFile, stdout, raised, exitStatus, attempts>>

CompletionMessage ==
    "Data generation complete. Files saved as CSV, JSON, and SQL dump."

\* The forms the completion message says the data was saved in.
MessageFormats == {"CSV", "JSON", "SQL"}

\* The forms in which a complete file is on disk.
SavedFormats ==
    (IF csvFile.exists /\ csvFile.complete THEN {"CSV"} ELSE {}) \cup
    (IF jsonFile.exists /\ jsonFile.complete THEN {"JSON"} ELSE {})

Init ==
    /\ pc = "generate"
    /\ NUM_TRANSACTIONS \in 0..MaxN
    /\ i = 0
    /\ transactions_data = <<>>
    /\ transactions_df = [columns |-> <<>>, rows |-> <<>>]
    /\ csvFile = [exists |-> FALSE, complete |-> FALSE, rows |-> <<>>]
    /\ jsonFile = [exists |-> FALSE, complete |-> FALSE, objs |-> <<>>]
    /\ stdout = <<>>
    /\ raised = "none"
    /\ exitStatus = "running"
    /\ attempts = [csv |-> 0, json |-> 0]

(* ------------------------------ actions -------------------------------- *)

\* One iteration of the list comprehension.
BuildRecord ==
    /\ pc = "generate"
    /\ i < NUM_TRANSACTIONS
    /\ \E r \in 0..MaxRand :
          transactions_data' = Append(transactions_data, TransactionRecord(i, r))
    /\ i' = i + 1
    /\ UNCHANGED <<pc, NUM_TRANSACTIONS, transactions_df, csvFile, jsonFile,
                   stdout, raised, exitStatus, attempts>>

\* range(NUM_TRANSACTIONS) is exhausted: the list is bound.
EndLoop ==
    /\ pc = "generate"
    /\ i >= NUM_TRANSACTIONS
    /\ pc' = "dataframe"
    /\ UNCHANGED <<NUM_TRANSACTIONS, i, transactions_data, transactions_df,
                   csvFile, jsonFile, stdout, raised, exitStatus, attempts>>

MakeDataFrame ==
    /\ pc = "dataframe"
    /\ transactions_df' = DataFrame(transactions_data)
    /\ pc' = "to_csv"
    /\ UNCHANGED <<NUM_TRANSACTIONS, i, transactions_data, csvFile, jsonFile,
                   stdout, raised, exitStatus, attempts>>

\* to_csv succeeds.
ToCsvOk ==
    /\ pc = "to_csv"
    /\ attempts' = [attempts EXCEPT !.csv = @ + 1]
    /\ csvFile' = [exists |-> TRUE, complete |-> TRUE,
                   rows |-> to_csv(transactions_df)]
    /\ pc' = "json_dump"
    /\ UNCHANGED <<NUM_TRANSACTIONS, i, transactions_data, transactions_df,
                   jsonFile, stdout, raised, exitStatus>>

\* Variant of ToCsvOpenFails in which the script carries on after the error.
ToCsvOpenFailsSwallowed ==
    /\ pc = "to_csv"
    /\ attempts' = [attempts EXCEPT !.csv = @ + 1]
    /\ raised' = "to_csv"
    /\ pc' = "json_dump"
    /\ UNCHANGED <<NUM_TRANSACTIONS, i, transactions_data, transactions_df,
                   csvFile, jsonFile, stdout, exitStatus>>

\* to_csv cannot open the file (permission denied): nothing is created and
\* the unhandled exception ends the script.
ToCsvOpenFails ==
    /\ pc = "to_csv"
    /\ attempts' = [attempts EXCEPT !.csv = @ + 1]
    /\ raised' = "to_csv"
    /\ pc' = "aborted"
    /\ exitStatus' = "1"
    /\ UNCHANGED <<NUM_TRANSACTIONS, i, transactions_data, transactions_df,
                   csvFile, jsonFile, stdout>>

\* to_csv fails while writing (disk full): some leading lines are left on
\* disk and the unhandled exception ends the script.
ToCsvWriteFails ==
    /\ pc = "to_csv"
    /\ attempts' = [attempts EXCEPT !.csv = @ + 1]
    /\ \E n \in 0..Len(transactions_df.rows) :
          csvFile' = [exists |-> TRUE, complete |-> FALSE,
                      rows |-> SubSeq(to_csv(transactions_df), 1, n)]
    /\ raised' = "to_csv"
    /\ pc' = "aborted"
    /\ exitStatus' = "1"
    /\ UNCHANGED <<NUM_TRANSACTIONS, i, transactions_data, transactions_df,
                   jsonFile, stdout>>

\* open and json.dump succeed.
JsonDumpOk ==
    /\ pc = "json_dump"
    /\ attempts' = [attempts EXCEPT !.json = @ + 1]
    /\ jsonFile' = [exists |-> TRUE, complete |-> TRUE,
                    objs |-> json_dump(transactions_data)]
    /\ pc' = "print"
    /\ UNCHANGED <<NUM_TRANSACTIONS, i, transactions_data, transactions_df,
                   csvFile, stdout, raised, exitStatus>>

\* open("transactions_.json", "w") fails: nothing is created.
JsonOpenFails ==
    /\ pc = "json_dump"
    /\ attempts' = [attempts EXCEPT !.json = @ + 1]
    /\ raised' = "json_dump"
    /\ pc' = "aborted"
    /\ exitStatus' = "1"
    /\ UNCHANGED <<NUM_TRANSACTIONS, i, transactions_data, transactions_df,
                   csvFile, jsonFile, stdout>>

\* Variant of JsonDumpWriteFails in which the script carries on after the
\* error.
JsonDumpWriteFailsSwallowed ==
    /\ pc = "json_dump"
    /\ attempts' = [attempts EXCEPT !.json = @ + 1]
    /\ \E n \in 0..Len(transactions_data) :
          jsonFile' = [exists |-> TRUE, complete |-> FALSE,
                       objs |-> SubSeq(json_dump(transactions_data), 1, n)]
    /\ raised' = "json_dump"
    /\ pc' = "print"
    /\ UNCHANGED <<NUM_TRANSACTIONS, i, transactions_data, transactions_df,
                   csvFile, stdout, exitStatus>>

\* json.dump fails while writing: an unfinished array with some leading
\* objects (possibly all, the closing bracket missing) is left on disk; the
\* with block closes the file and the exception ends the script.
JsonDumpWriteFails ==
    /\ pc = "json_dump"
    /\ attempts' = [attempts EXCEPT !.json = @ + 1]
    /\ \E n \in 0..Len(transactions_data) :
          jsonFile' = [exists |-> TRUE, complete |-> FALSE,
                       objs |-> SubSeq(json_dump(transactions_data), 1, n)]
    /\ raised' = "json_dump"
    /\ pc' = "aborted"
    /\ exitStatus' = "1"
    /\ UNCHANGED <<NUM_TRANSACTIONS, i, transactions_data, transactions_df,
                   csvFile, stdout>>

\* print(...), the last statement: the script then exits with status 0.
PrintCompletion ==
    /\ pc = "print"
    /\ stdout' = Append(stdout, CompletionMessage)
    /\ pc' = "done"
    /\ exitStatus' = "0"
    /\ UNCHANGED <<NUM_TRANSACTIONS, i, transactions_data, transactions_df,
                   csvFile, jsonFile, raised, attempts>>

Next ==
    \/ BuildRecord
    \/ EndLoop
    \/ MakeDataFrame
    \/ ToCsvOk
    \/ ToCsvOpenFails
    \/ ToCsvWriteFails
    \/ JsonDumpOk
    \/ JsonOpenFails
    \/ JsonDumpWriteFails
    \/ PrintCompletion

Spec == Init /\ [][Next]_vars

\* Python runs the script's statements one after another until the script
\* ends: a statement that can run does run.
FairSpec == Spec /\ WF_vars(Next)


(* ----------------------------- properties ------------------------------ *)

\* C1: the records built so far are exactly i many, record k carries
\* TransactionID k, so the IDs are pairwise distinct and form 1..k without
\* gap or repeat; once the loop has finished there are NUM_TRANSACTIONS
\* records.
C1_SequentialIDs ==
    /\ Len(transactions_data) = i
    /\ i <= NUM_TRANSACTIONS
    /\ \A k \in 1..Len(transactions_data) :
          /\ transactions_data[k].TransactionID.t = "int"
          /\ transactions_data[k].TransactionID.v = k
    /\ \A j, k \in 1..Len(transactions_data) :
          j # k => transactions_data[j].TransactionID.v
                     # transactions_data[k].TransactionID.v
    /\ {transactions_data[k].TransactionID.v : k \in 1..Len(transactions_data)}
          = 1..Len(transactions_data)
    /\ pc # "generate" => Len(transactions_data) = NUM_TRANSACTIONS

C1_Witness ==
    /\ pc = "dataframe"
    /\ NUM_TRANSACTIONS >= 2
    /\ Len(transactions_data) = NUM_TRANSACTIONS

\* C2: when the script has finished without a failed write, both files
\* exist and are complete, the CSV holds one header line and N data lines,
\* the JSON array holds N objects, and line k and object k carry the
\* TransactionID and TransactionCode of record k; for N = 1 that is one
\* record with TransactionID 1, a CSV of two lines and an array of length 1.
C2_BothFilesWritten ==
    pc = "done" =>
        /\ csvFile.exists /\ csvFile.complete
        /\ jsonFile.exists /\ jsonFile.complete
        /\ Len(transactions_data) = NUM_TRANSACTIONS
        /\ Len(csvFile.rows) = 1 + NUM_TRANSACTIONS
        /\ Len(jsonFile.objs) = NUM_TRANSACTIONS
        /\ \A k \in 1..NUM_TRANSACTIONS :
              /\ Len(csvFile.rows[k + 1]) = 17
              /\ TextToInt(csvFile.rows[k + 1][1]) = k
              /\ csvFile.rows[k + 1][2] = transactions_data[k].TransactionCode.v
              /\ Len(jsonFile.objs[k]) = 17
              /\ jsonFile.objs[k][1].key = "TransactionID"
              /\ TextToInt(jsonFile.objs[k][1].tok.text) = k
              /\ jsonFile.objs[k][2].key = "TransactionCode"
              /\ jsonFile.objs[k][2].tok.text
                    = transactions_data[k].TransactionCode.v
        /\ NUM_TRANSACTIONS = 1 =>
              /\ transactions_data[1].TransactionID.v = 1
              /\ Len(csvFile.rows) = 2
              /\ Len(jsonFile.objs) = 1

C2_Witness ==
    /\ pc = "done"
    /\ NUM_TRANSACTIONS = 1
    /\ Len(csvFile.rows) = 2
    /\ Len(jsonFile.objs) = 1

\* C3: reading back the complete transactions_.json gives as many records
\* as transactions_data holds, in the same order, each with the 17 field
\* names in order and, per field, the type of the in-memory value (int, str,
\* float, and 0/1 for IsFraudulent); and transactions_data never changes
\* once the generation loop has been left.
C3_JsonRoundTrip ==
    /\ [](jsonFile.complete =>
            LET loaded == json_load(jsonFile.objs)
                expected ==
                    [TransactionID |-> "int", TransactionCode |-> "str",
                     ClientID |-> "int", ClientFullName |-> "str",
                     AgentID |-> "int", AgentFullName |-> "str",
                     TransactionDate |-> "str", Amount |-> "float",
                     Currency |-> "str", OriginalCountry |-> "str",
                     DestinationCountry |-> "str", Fee |-> "float",
                     TransactionStatus |-> "str", StatusDate |-> "str",
                     Category |-> "str", Icon |-> "str",
                     IsFraudulent |-> "int"]
            IN  /\ Len(loaded) = Len(transactions_data)
                /\ \A k \in 1..Len(loaded) :
                      /\ loaded[k].keys = FieldNames
                      /\ loaded[k].vals[1].v = transactions_data[k].TransactionID.v
                      /\ \A j \in 1..Len(FieldNames) :
                            /\ loaded[k].vals[j].t
                                  = transactions_data[k][FieldNames[j]].t
                            /\ loaded[k].vals[j].t = expected[FieldNames[j]]
                      /\ loaded[k].vals[17].v \in {0, 1})
    /\ [][pc # "generate" => transactions_data' = transactions_data]_vars

C3_Witness ==
    /\ jsonFile.complete
    /\ Len(jsonFile.objs) >= 2
    /\ \E k \in 1..Len(transactions_data) :
          transactions_data[k].Amount.v % 1000 = 0

\* C4: in every record built, and in every data line of the CSV and every
\* object of the JSON written, Currency is one of USD, EUR, GBP, INR, AUD,
\* CAD, TransactionStatus one of Completed, Pending, Failed, Cancelled, and
\* Category one of Send, Receive, Other.
C4_EnumMembership ==
    LET currencySet ==
            {<<"U", "S", "D">>, <<"E", "U", "R">>, <<"G", "B", "P">>,
             <<"I", "N", "R">>, <<"A", "U", "D">>, <<"C", "A", "D">>}
        statusSet ==
            {<<"C", "o", "m", "p", "l", "e", "t", "e", "d">>,
             <<"P", "e", "n", "d", "i", "n", "g">>,
             <<"F", "a", "i", "l", "e", "d">>,
             <<"C", "a", "n", "c", "e", "l", "l", "e", "d">>}
        categorySet ==
            {<<"S", "e", "n", "d">>, <<"R", "e", "c", "e", "i", "v", "e">>,
             <<"O", "t", "h", "e", "r">>}
    IN  /\ \A k \in 1..Len(transactions_data) :
              /\ transactions_data[k].Currency.v \in currencySet
              /\ transactions_data[k].TransactionStatus.v \in statusSet
              /\ transactions_data[k].Category.v \in categorySet
        /\ \A k \in 2..Len(csvFile.rows) :
              /\ csvFile.rows[k][9] \in currencySet
              /\ csvFile.rows[k][13] \in statusSet
              /\ csvFile.rows[k][15] \in categorySet
        /\ \A k \in 1..Len(jsonFile.objs) :
              /\ jsonFile.objs[k][9].tok.text \in currencySet
              /\ jsonFile.objs[k][13].tok.text \in statusSet
              /\ jsonFile.objs[k][15].tok.text \in categorySet

C4_Witness ==
    /\ pc = "done"
    /\ Len(csvFile.rows) >= 3
    /\ Len(jsonFile.objs) >= 2
    /\ transactions_data[1].Currency.v = <<"C", "A", "D">>
    /\ transactions_data[2].Category.v = <<"O", "t", "h", "e", "r">>

\* C5 as stated: every Amount lies in [10, 10000], every Fee in [1, 50],
\* and each of the two is written with exactly 2 decimal digits.
C5_ExactlyTwoDecimals ==
    \A k \in 1..Len(transactions_data) :
        /\ transactions_data[k].Amount.v >= 10 * 1000
        /\ transactions_data[k].Amount.v <= 10000 * 1000
        /\ transactions_data[k].Fee.v >= 1 * 1000
        /\ transactions_data[k].Fee.v <= 50 * 1000
        /\ DecimalDigits(transactions_data[k].Amount.v) = 2
        /\ DecimalDigits(transactions_data[k].Fee.v) = 2

\* C5 amended: every Amount lies in [10, 10000], every Fee in [1, 50], each
\* is a whole number of hundredths, and each is written with 1 or 2 decimal
\* digits.
C5_AtMostTwoDecimals ==
    \A k \in 1..Len(transactions_data) :
        /\ transactions_data[k].Amount.v >= 10 * 1000
        /\ transactions_data[k].Amount.v <= 10000 * 1000
        /\ transactions_data[k].Fee.v >= 1 * 1000
        /\ transactions_data[k].Fee.v <= 50 * 1000
        /\ transactions_data[k].Amount.v % 10 = 0
        /\ transactions_data[k].Fee.v % 10 = 0
        /\ DecimalDigits(transactions_data[k].Amount.v) \in {1, 2}
        /\ DecimalDigits(transactions_data[k].Fee.v) \in {1, 2}

C5_Witness ==
    /\ \E k \in 1..Len(transactions_data) :
          DecimalDigits(transactions_data[k].Amount.v) = 1
    /\ \E k \in 1..Len(transactions_data) :
          DecimalDigits(transactions_data[k].Fee.v) = 2
    /\ \E k \in 1..Len(transactions_data) :
          transactions_data[k].Amount.v \in {10 * 1000, 10000 * 1000}

C7_UniqueCodes ==
    \A j, k \in 1..Len(transactions_data) :
        j # k => transactions_data[j].TransactionCode.v
                   # transactions_data[k].TransactionCode.v

\* C8 as stated: no execution ends with a non-zero exit status.
C8_NoNonZeroExit == exitStatus # "1"

\* C8 amended: every execution ends; it ends with status 0, the completion
\* message printed once and no write failed, or it ends with status 1 at a
\* failed write with nothing printed.
C8_TerminatesEitherWay ==
    /\ <>(pc \in {"done", "aborted"})
    /\ [](pc = "done" =>
            /\ raised = "none"
            /\ exitStatus = "0"
            /\ stdout = <<CompletionMessage>>)
    /\ [](pc = "aborted" =>
            /\ raised \in {"to_csv", "json_dump"}
            /\ exitStatus = "1"
            /\ stdout = <<>>)
    /\ [](exitStatus # "running" <=> pc \in {"done", "aborted"})

C8_Witness ==
    /\ pc = "aborted"
    /\ exitStatus = "1"
    /\ raised = "to_csv"
    /\ NUM_TRANSACTIONS >= 1

\* C9: whenever the completion message has been printed, the data is on
\* disk in every form the message names: CSV, JSON and SQL dump.
C9_AllNamedFormsSaved ==
    stdout # <<>> => MessageFormats \subseteq SavedFormats

\* C10: each write is started at most once; a failed CSV write ends the run
\* there, with the JSON write never started, no JSON file and nothing
\* printed; a failed JSON write ends the run there, with the complete CSV
\* file still in place and nothing printed.
C10_WriteFailureAborts ==
    /\ attempts.csv <= 1
    /\ attempts.json <= 1
    /\ raised = "to_csv" =>
          /\ pc = "aborted"
          /\ attempts.json = 0
          /\ ~jsonFile.exists
          /\ stdout = <<>>
    /\ raised = "json_dump" =>
          /\ pc = "aborted"
          /\ csvFile.exists /\ csvFile.complete
          /\ Len(csvFile.rows) = 1 + NUM_TRANSACTIONS
          /\ stdout = <<>>

C10_Witness ==
    /\ raised = "json_dump"
    /\ jsonFile.exists
    /\ ~jsonFile.complete
    /\ Len(jsonFile.objs) >= 1
    /\ csvFile.complete

====
